---- MODULE Spec2Model ----
(***************************************************************************)
(* Model of scripts/python/calculate_bond_metrics.py.                      *)
(*                                                                         *)
(* JSON values are records [t, n, d, s, l]: t is the kind ("num", "str",   *)
(* "null", "list"), n/d a number as a reduced fraction, s a string, l a    *)
(* list.  A JSON object (a Python dict) is a function from key strings to  *)
(* such values.  Python floats are modelled as exact rationals; the input  *)
(* values below are chosen so that prices are dyadic and the float         *)
(* arithmetic of the cashflow loop is exact on them.                       *)
(***************************************************************************)
EXTENDS Integers, Sequences, FiniteSets, TLC

\* ---------------------------------------------------------------- bounds
MaxMaturity == 3
MaxBonds == 2

\* ------------------------------------------------------------- rationals
Abs(x) == IF x < 0 THEN -x ELSE x

RECURSIVE Gcd(_, _)
Gcd(a, b) == IF b = 0 THEN a ELSE Gcd(b, a % b)

\* the fraction n/d (d # 0) in lowest terms with a positive denominator
Rat(n, d) ==
  LET g == Gcd(Abs(n), Abs(d))
      s == IF d < 0 THEN -1 ELSE 1
  IN  [n |-> (s * n) \div g, d |-> (s * d) \div g]

FInt(k) == [n |-> k, d |-> 1]
FZero == FInt(0)
FAdd(a, b) == Rat(a.n * b.d + b.n * a.d, a.d * b.d)
FMul(a, b) == Rat(a.n * b.n, a.d * b.d)
\* a / b for b # 0 (the callers raise ZeroDivisionError before dividing by 0)
FDiv(a, b) == Rat(a.n * b.d, a.d * b.n)
FLeqZero(a) == a.n <= 0

\* math.pow(x, year) for an integral year >= 0
RECURSIVE FPow(_, _)
FPow(x, k) == IF k = 0 THEN FInt(1) ELSE FMul(x, FPow(x, k - 1))

\* ----------------------------------------------------------- JSON values
Num(r) == [t |-> "num", n |-> r.n, d |-> r.d, s |-> "", l |-> <<>>]
NumI(k) == Num(FInt(k))
Str(x) == [t |-> "str", n |-> 0, d |-> 1, s |-> x, l |-> <<>>]
Null == [t |-> "null", n |-> 0, d |-> 1, s |-> "", l |-> <<>>]
List(q) == [t |-> "list", n |-> 0, d |-> 1, s |-> "", l |-> q]
FOf(v) == [n |-> v.n, d |-> v.d]

EmptyDict == [k \in {} |-> Null]
\* d[k] = v on a dict
DictSet(d, k, v) == [x \in DOMAIN d \cup {k} |-> IF x = k THEN v ELSE d[x]]
\* a variant of DictGet without the fallback
DictGet_nodefault(d, k, default) ==
  IF k.t = "str" /\ k.s \in DOMAIN d THEN d[k.s] ELSE FZero
\* d.get(k, default) for a table of numbers and a string-valued key
DictGet(d, k, default) ==
  IF k.t = "str" /\ k.s \in DOMAIN d THEN d[k.s] ELSE default

\* ---------------------------------------------------------------- tables
RATING_PD ==
  [k \in {"AAA", "AA+", "AA", "AA-", "A+", "A", "A-", "BBB+", "BBB", "BBB-",
          "BB+", "BB", "B+"} |->
     CASE k = "AAA" -> Rat(2, 10000)
       [] k = "AA+" -> Rat(3, 10000)
       [] k = "AA" -> Rat(5, 10000)
       [] k = "AA-" -> Rat(8, 10000)
       [] k = "A+" -> Rat(12, 10000)
       [] k = "A" -> Rat(18, 10000)
       [] k = "A-" -> Rat(25, 10000)
       [] k = "BBB+" -> Rat(4, 1000)
       [] k = "BBB" -> Rat(7, 1000)
       [] k = "BBB-" -> Rat(12, 1000)
       [] k = "BB+" -> Rat(2, 100)
       [] k = "BB" -> Rat(35, 1000)
       [] k = "B+" -> Rat(6, 100)]

SECTOR_LGD ==
  [k \in {"Government", "Banking", "Technology", "Healthcare", "Energy",
          "Utilities", "Telecom", "Industrials", "Consumer",
          "Financial Services"} |->
     CASE k = "Government" -> Rat(5, 100)
       [] k = "Banking" -> Rat(45, 100)
       [] k = "Technology" -> Rat(40, 100)
       [] k = "Healthcare" -> Rat(35, 100)
       [] k = "Energy" -> Rat(50, 100)
       [] k = "Utilities" -> Rat(35, 100)
       [] k = "Telecom" -> Rat(45, 100)
       [] k = "Industrials" -> Rat(40, 100)
       [] k = "Consumer" -> Rat(35, 100)
       [] k = "Financial Services" -> Rat(40, 100)]

\* the fallbacks of the two .get calls
PD_DEFAULT == Rat(1, 1000)
LGD_DEFAULT == Rat(40, 100)

\* ------------------------------------------------ conversions of Python
Ok(r) == [ok |-> TRUE, err |-> "", v |-> r]
Err(e) == [ok |-> FALSE, err |-> e, v |-> FZero]

\* the numeric strings of the model and what float() reads in them
NumericStrings == {"2", "2.7"}
ParseFloat(x) == IF x = "2" THEN FInt(2) ELSE Rat(27, 10)
\* the strings int() accepts: integer literals only
IntegerStrings == {"2"}

\* bond[key]
Item(bond, key) ==
  IF key \in DOMAIN bond THEN [ok |-> TRUE, err |-> "", v |-> bond[key]]
  ELSE [ok |-> FALSE, err |-> "KeyError", v |-> Null]

\* float(x)
PyFloat(x) ==
  CASE x.t = "num" -> Ok(FOf(x))
    [] x.t = "str" -> IF x.s \in NumericStrings THEN Ok(ParseFloat(x.s))
                      ELSE Err("ValueError")
    [] OTHER -> Err("TypeError")

\* truncation toward zero of a fraction
Trunc(r) == IF r.n >= 0 THEN r.n \div r.d ELSE -((-r.n) \div r.d)

\* a variant of PyInt that rejects a number that is not a positive integer
PyInt_strict(x) ==
  CASE x.t = "num" -> IF x.d = 1 /\ x.n >= 1 THEN Ok(FOf(x))
                      ELSE Err("ValueError")
    [] x.t = "str" -> IF x.s \in IntegerStrings THEN Ok(ParseFloat(x.s))
                      ELSE Err("ValueError")
    [] OTHER -> Err("TypeError")

\* int(x)
PyInt(x) ==
  CASE x.t = "num" -> Ok(FInt(Trunc(FOf(x))))
    [] x.t = "str" -> IF x.s \in IntegerStrings THEN Ok(ParseFloat(x.s))
                      ELSE Err("ValueError")
    [] OTHER -> Err("TypeError")

\* float(bond[key]) and int(bond[key])
FloatItem(bond, key) ==
  IF Item(bond, key).ok THEN PyFloat(bond[key]) ELSE Err("KeyError")
IntItem(bond, key) ==
  IF Item(bond, key).ok THEN PyInt(bond[key]) ELSE Err("KeyError")

\* ------------------------------------------------------ calculate_metrics
\* sum(...) of Python: a left fold from 0
RECURSIVE PySum(_)
PySum(q) == IF q = <<>> THEN FZero
            ELSE FAdd(PySum(SubSeq(q, 1, Len(q) - 1)), q[Len(q)])

\* a variant of LoopBody that accumulates the undiscounted total
LoopBody_sumtotal(st, year, face_value, annual_coupon, ytm, maturity) ==
  LET principal == IF year = maturity THEN face_value ELSE FZero
      coupon == annual_coupon
      total == FAdd(coupon, principal)
      power == FPow(FAdd(FInt(1), ytm), year)
      discounted == FDiv(total, power)
  IN  IF power.n = 0
      THEN [st EXCEPT !.err = "ZeroDivisionError"]
      ELSE [cashflows |-> Append(st.cashflows,
                                 [year |-> NumI(year),
                                  coupon |-> Num(coupon),
                                  principal |-> Num(principal),
                                  total |-> Num(total),
                                  discounted |-> Num(discounted)]),
            market_price |-> FAdd(st.market_price, total),
            err |-> ""]

\* a variant of LoopBody that repays the face value in the first year
LoopBody_firstyear(st, year, face_value, annual_coupon, ytm, maturity) ==
  LET principal == IF year = 1 THEN face_value ELSE FZero
      coupon == annual_coupon
      total == FAdd(coupon, principal)
      power == FPow(FAdd(FInt(1), ytm), year)
      discounted == FDiv(total, power)
  IN  IF power.n = 0
      THEN [st EXCEPT !.err = "ZeroDivisionError"]
      ELSE [cashflows |-> Append(st.cashflows,
                                 [year |-> NumI(year),
                                  coupon |-> Num(coupon),
                                  principal |-> Num(principal),
                                  total |-> Num(total),
                                  discounted |-> Num(discounted)]),
            market_price |-> FAdd(st.market_price, discounted),
            err |-> ""]

\* one iteration of the loop over the years; st is the loop's state:
\* the cashflows so far, the running market price, and the error raised
LoopBody(st, year, face_value, annual_coupon, ytm, maturity) ==
  LET principal == IF year = maturity THEN face_value ELSE FZero
      coupon == annual_coupon
      total == FAdd(coupon, principal)
      power == FPow(FAdd(FInt(1), ytm), year)
      discounted == FDiv(total, power)
  IN  IF power.n = 0
      THEN [st EXCEPT !.err = "ZeroDivisionError"]
      ELSE [cashflows |-> Append(st.cashflows,
                                 [year |-> NumI(year),
                                  coupon |-> Num(coupon),
                                  principal |-> Num(principal),
                                  total |-> Num(total),
                                  discounted |-> Num(discounted)]),
            market_price |-> FAdd(st.market_price, discounted),
            err |-> ""]

\* for year in range(1, maturity + 1), from the given year on
RECURSIVE Loop(_, _, _, _, _, _)
Loop(st, year, face_value, annual_coupon, ytm, maturity) ==
  IF year > maturity \/ st.err # "" THEN st
  ELSE Loop(LoopBody(st, year, face_value, annual_coupon, ytm, maturity),
            year + 1, face_value, annual_coupon, ytm, maturity)

\* a variant of Degenerate that catches a zero price only
Degenerate_zero_only(market_price) == market_price.n = 0

\* the condition of the degenerate branch
Degenerate(market_price) == FLeqZero(market_price)

\* sum(cf["year"] * cf["discounted"] for cf in cashflows) / market_price
MacaulayFormula(cashflows, market_price) ==
  FDiv(PySum([i \in 1..Len(cashflows) |->
                FMul(FOf(cashflows[i].year), FOf(cashflows[i].discounted))]),
       market_price)

\* macaulay_duration / (1 + ytm)
DurationFormula(macaulay_duration, ytm) ==
  FDiv(macaulay_duration, FAdd(FInt(1), ytm))

\* sum(year * (year + 1) * discounted) / (market_price * (1 + ytm) * (1 + ytm))
ConvexityFormula(cashflows, market_price, ytm) ==
  FDiv(PySum([i \in 1..Len(cashflows) |->
                FMul(FMul(FOf(cashflows[i].year),
                          FAdd(FOf(cashflows[i].year), FInt(1))),
                     FOf(cashflows[i].discounted))]),
       FMul(FMul(market_price, FAdd(FInt(1), ytm)), FAdd(FInt(1), ytm)))

\* duration * market_price * 0.0001
Pv01Formula(duration, market_price) ==
  FMul(FMul(duration, market_price), Rat(1, 10000))

\* a variant of Cr01 that ignores the case of the first letter
Cr01_anycase(bond_type, duration, market_price) ==
  IF bond_type \in {Str("Corporate"), Str("corporate")}
  THEN Pv01Formula(duration, market_price)
  ELSE FZero

\* cr01: the sensitivity for "Corporate", 0.0 for every other type
Cr01(bond_type, duration, market_price) ==
  IF bond_type = Str("Corporate") THEN Pv01Formula(duration, market_price)
  ELSE FZero

\* pd and lgd, in percent
Pd(rating) == FMul(DictGet(RATING_PD, rating, PD_DEFAULT), FInt(100))
Lgd(sector) == FMul(DictGet(SECTOR_LGD, sector, LGD_DEFAULT), FInt(100))

\* a variant of DictCopy that keeps the required fields only
DictCopy_required(bond) ==
  [k \in DOMAIN bond \cap {"faceValue", "couponRate", "yieldToMaturity",
                          "maturityYears", "type", "rating", "sector"} |->
     bond[k]]

\* out = dict(bond)
DictCopy(bond) == [k \in DOMAIN bond |-> bond[k]]

\* the caller's descriptor once the call has written its eleven keys into
\* out: out is a copy, so the writes do not reach it
BondAfterWrites(bond, out) == bond

\* what the call hands back: a result, or the error it raised
Returned(out, bond) == [ok |-> TRUE, err |-> "", out |-> out, bond |-> bond]
Raised(e, bond) == [ok |-> FALSE, err |-> e, out |-> EmptyDict, bond |-> bond]

\* the body of calculate_metrics after the seven reads of the descriptor
Metrics(bond, face_value, coupon_rate, ytm, maturity, bond_type, rating, sector) ==
  LET annual_coupon == FMul(face_value, FDiv(coupon_rate, FInt(100)))
      st == Loop([cashflows |-> <<>>, market_price |-> FZero, err |-> ""],
                 1, face_value, annual_coupon, ytm, maturity)
      cashflows == st.cashflows
      market_price == st.market_price
      macaulay_duration ==
        IF Degenerate(market_price) THEN FZero
        ELSE MacaulayFormula(cashflows, market_price)
      duration ==
        IF Degenerate(market_price) THEN FZero
        ELSE DurationFormula(macaulay_duration, ytm)
      convexity ==
        IF Degenerate(market_price) THEN FZero
        ELSE ConvexityFormula(cashflows, market_price, ytm)
      pv01 == Pv01Formula(duration, market_price)
      dv01 == pv01
      cr01 == Cr01(bond_type, duration, market_price)
      pd == Pd(rating)
      lgd == Lgd(sector)
      expected_loss ==
        FMul(FMul(FDiv(pd, FInt(100)), FDiv(lgd, FInt(100))), market_price)
      o0 == DictCopy(bond)
      o1 == DictSet(o0, "marketPrice", Num(market_price))
      o2 == DictSet(o1, "macaulayDuration", Num(macaulay_duration))
      o3 == DictSet(o2, "duration", Num(duration))
      o4 == DictSet(o3, "convexity", Num(convexity))
      o5 == DictSet(o4, "pv01", Num(pv01))
      o6 == DictSet(o5, "dv01", Num(dv01))
      o7 == DictSet(o6, "cr01", Num(cr01))
      o8 == DictSet(o7, "pd", Num(pd))
      o9 == DictSet(o8, "lgd", Num(lgd))
      o10 == DictSet(o9, "expectedLoss", Num(expected_loss))
      out == DictSet(o10, "cashflows", List(cashflows))
  IN  IF st.err # "" THEN Raised(st.err, bond)
      ELSE Returned(out, BondAfterWrites(bond, out))

\* the first error among the seven reads, in the order of the code, or ""
ReadError(bond) ==
  LET fv == FloatItem(bond, "faceValue")
      cr == FloatItem(bond, "couponRate")
      ym == FloatItem(bond, "yieldToMaturity")
      my == IntItem(bond, "maturityYears")
  IN  CASE ~fv.ok -> fv.err
        [] ~cr.ok -> cr.err
        [] ~ym.ok -> ym.err
        [] ~my.ok -> my.err
        [] ~Item(bond, "type").ok -> "KeyError"
        [] ~Item(bond, "rating").ok -> "KeyError"
        [] ~Item(bond, "sector").ok -> "KeyError"
        [] OTHER -> ""

calculate_metrics(bond) ==
  IF ReadError(bond) # "" THEN Raised(ReadError(bond), bond)
  ELSE Metrics(bond,
               FloatItem(bond, "faceValue").v,
               FloatItem(bond, "couponRate").v,
               FDiv(FloatItem(bond, "yieldToMaturity").v, FInt(100)),
               IntItem(bond, "maturityYears").v.n,
               bond["type"], bond["rating"], bond["sector"])

\* ------------------------------------------------------------ the inputs
RequiredKeys == {"faceValue", "couponRate", "yieldToMaturity",
                 "maturityYears", "type", "rating", "sector"}
ComputedKeys == {"marketPrice", "macaulayDuration", "duration", "convexity",
                 "pv01", "dv01", "cr01", "pd", "lgd", "expectedLoss",
                 "cashflows"}

MakeBond(f, c, y, m, t, r, s) ==
  [faceValue |-> f, couponRate |-> c, yieldToMaturity |-> y,
   maturityYears |-> m, type |-> t, rating |-> r, sector |-> s]

Drop(bond, k) == [x \in DOMAIN bond \ {k} |-> bond[x]]

\* fields a descriptor may carry beyond the required seven
ExtraFields == [isin |-> Str("XS1"), notes |-> Null]
\* fields of a descriptor that collide with computed keys
StaleFields == [pd |-> NumI(5), cashflows |-> Str("old"), marketPrice |-> Null]

FaceValues == {NumI(100), NumI(0), NumI(-100), Str("2")}
CouponRates == {NumI(50), NumI(0), NumI(-50), Str("abc")}
Yields == {NumI(0), NumI(100), NumI(-100), NumI(-200), Null}
Maturities ==
  {NumI(m) : m \in -1..MaxMaturity}
    \cup {Num(Rat(27, 10)), Num(Rat(-3, 2)), Str("2"), Str("2.7"), Null}
Types == {Str("Corporate"), Str("corporate"), Str("Government")}
Ratings == {Str("BBB"), Str("ZZZ"), Null}
Sectors == {Str("Energy"), Str("Mars")}
Variants == {"plain", "extra", "stale"} \cup RequiredKeys

Vary(bond, variant) ==
  CASE variant = "plain" -> bond
    [] variant = "extra" -> bond @@ ExtraFields
    [] variant = "stale" -> bond @@ ExtraFields @@ StaleFields
    [] OTHER -> Drop(bond, variant)

\* the descriptors calculate_metrics is applied to
BondSpace ==
  {Vary(MakeBond(f, c, y, m, t, r, s), v) :
     f \in FaceValues, c \in CouponRates, y \in Yields, m \in Maturities,
     t \in Types, r \in Ratings, s \in Sectors, v \in Variants}

GoodBond ==
  MakeBond(NumI(100), NumI(50), NumI(100), NumI(2), Str("Corporate"),
           Str("BBB"), Str("Energy"))

\* the descriptors of the batches given to main
BatchBonds ==
  {GoodBond,
   GoodBond @@ ExtraFields @@ StaleFields,
   [GoodBond EXCEPT !.maturityYears = NumI(0), !.type = Str("Government"),
                    !.rating = Str("ZZZ")],
   [GoodBond EXCEPT !.maturityYears = Num(Rat(27, 10)),
                    !.sector = Str("Mars")],
   [GoodBond EXCEPT !.maturityYears = NumI(MaxMaturity),
                    !.yieldToMaturity = NumI(-200)],
   Drop(GoodBond, "faceValue"),
   [GoodBond EXCEPT !.couponRate = Str("abc")],
   [GoodBond EXCEPT !.yieldToMaturity = NumI(-100)]}

RECURSIVE SeqsUpTo(_, _)
SeqsUpTo(S, n) ==
  IF n = 0 THEN {<<>>}
  ELSE LET shorter == SeqsUpTo(S, n - 1)
       IN  shorter \cup {Append(q, x) : q \in shorter, x \in S}

\* what standard input holds: nothing, text that is not JSON, a JSON value
\* that is not an object, or an object with or without a bonds field
Stdin(kind, hasBonds, q) == [kind |-> kind, hasBonds |-> hasBonds, bonds |-> q]
StdinSpace ==
  {Stdin("empty", FALSE, <<>>), Stdin("malformed", FALSE, <<>>),
   Stdin("array", FALSE, <<>>), Stdin("object", FALSE, <<>>)}
    \cup {Stdin("object", TRUE, q) : q \in SeqsUpTo(BatchBonds, MaxBonds)}

\* ---------------------------------------------------------------- state
VARIABLES
  stdin,    \* the text main reads, as the JSON value it holds
  pc,       \* where main is: "start", "comprehension", "done", "failed"
  bonds,    \* the list payload.get("bonds", []) as it is now
  result,   \* the list the comprehension has built so far
  stdout,   \* the payloads written to standard output, in order
  bond,     \* the descriptor handed to a single call of calculate_metrics
  ret,      \* what that call handed back
  cpc       \* where the single call is: "call", "returned", "raised", "idle"

vars == <<stdin, pc, bonds, result, stdout, bond, ret, cpc>>
mainVars == <<stdin, pc, bonds, result, stdout>>
callVars == <<bond, ret, cpc>>

NoRet == Raised("", EmptyDict)

\* ------------------------------------------------------------------ main
\* a variant of RawOrEmptyObject that passes the text on as read
RawOrEmptyObject_raw(raw) == raw
\* raw if raw else "{}"
RawOrEmptyObject(raw) ==
  IF raw.kind = "empty" THEN Stdin("object", FALSE, <<>>) ELSE raw
\* payload.get("bonds", [])
GetBonds(payload) == IF payload.hasBonds THEN payload.bonds ELSE <<>>
\* json.loads raises on text that is not JSON (the empty text included);
\* .get raises on a JSON value that is not an object
LoadFails(text) == text.kind \in {"empty", "malformed", "array"}

Init ==
  /\ stdin \in StdinSpace
  /\ pc = "start"
  /\ bonds = <<>>
  /\ result = <<>>
  /\ stdout = <<>>
  /\ bond = EmptyDict
  /\ ret = NoRet
  /\ cpc = "idle"

Load ==
  /\ pc = "start"
  /\ ~LoadFails(RawOrEmptyObject(stdin))
  /\ bonds' = GetBonds(RawOrEmptyObject(stdin))
  /\ pc' = "comprehension"
  /\ UNCHANGED <<stdin, result, stdout, callVars>>

LoadRaises ==
  /\ pc = "start"
  /\ LoadFails(RawOrEmptyObject(stdin))
  /\ pc' = "failed"
  /\ UNCHANGED <<stdin, bonds, result, stdout, callVars>>

\* a variant of NextIndex that never advances
NextIndex_first(done) == 1

\* the index of the element the comprehension computes next
NextIndex(done) == Len(done) + 1

\* one element of [calculate_metrics(b) for b in bonds]
ComputeBond ==
  /\ pc = "comprehension"
  /\ Len(result) < Len(bonds)
  /\ LET i == NextIndex(result)
         r == calculate_metrics(bonds[i])
     IN  /\ r.ok
         /\ result' = Append(result, r.out)
         /\ bonds' = [bonds EXCEPT ![i] = r.bond]
  /\ UNCHANGED <<stdin, pc, stdout, callVars>>

\* a variant of ComputeBondRaises that writes what was computed so far
ComputeBondRaises_flush ==
  /\ pc = "comprehension"
  /\ Len(result) < Len(bonds)
  /\ ~calculate_metrics(bonds[NextIndex(result)]).ok
  /\ stdout' = Append(stdout, [bonds |-> result])
  /\ pc' = "failed"
  /\ UNCHANGED <<stdin, bonds, result, callVars>>

\* an element whose computation raises: the error leaves main
ComputeBondRaises ==
  /\ pc = "comprehension"
  /\ Len(result) < Len(bonds)
  /\ ~calculate_metrics(bonds[NextIndex(result)]).ok
  /\ pc' = "failed"
  /\ UNCHANGED <<stdin, bonds, result, stdout, callVars>>

\* sys.stdout.write(json.dumps(result)), once the comprehension is complete;
\* stdout keeps the document written, not its text
Write ==
  /\ pc = "comprehension"
  /\ Len(result) = Len(bonds)
  /\ stdout' = Append(stdout, [bonds |-> result])
  /\ pc' = "done"
  /\ UNCHANGED <<stdin, bonds, result, callVars>>

Next == Load \/ LoadRaises \/ ComputeBond \/ ComputeBondRaises \/ Write

Spec == Init /\ [][Next]_vars

\* ------------------------------------------- a single call, on any input
InitCalc ==
  /\ bond \in BondSpace
  /\ ret = NoRet
  /\ cpc = "call"
  /\ stdin = Stdin("empty", FALSE, <<>>)
  /\ pc = "idle"
  /\ bonds = <<>>
  /\ result = <<>>
  /\ stdout = <<>>

CallReturns ==
  /\ cpc = "call"
  /\ calculate_metrics(bond).ok
  /\ ret' = calculate_metrics(bond)
  /\ cpc' = "returned"
  /\ UNCHANGED <<bond, mainVars>>

CallRaises ==
  /\ cpc = "call"
  /\ ~calculate_metrics(bond).ok
  /\ ret' = calculate_metrics(bond)
  /\ cpc' = "raised"
  /\ UNCHANGED <<bond, mainVars>>

NextCalc == CallReturns \/ CallRaises

SpecCalc == InitCalc /\ [][NextCalc]_vars

\* ---------------------------------------------------------- properties
\* What the properties say about a descriptor, stated on the descriptor
\* itself and not through the operators above.

\* a value float() reads, and the number it reads
Numeric(v) == v.t = "num" \/ (v.t = "str" /\ v.s \in {"2", "2.7"})
ValueOf(v) ==
  IF v.t = "num" THEN [n |-> v.n, d |-> v.d]
  ELSE IF v.s = "2" THEN [n |-> 2, d |-> 1] ELSE [n |-> 27, d |-> 10]

\* the whole number of years in a numeric maturity: its integral part
WholeYears(v) ==
  CHOOSE k \in -(MaxMaturity + 2)..(MaxMaturity + 2) :
    /\ Abs(k) * v.d <= Abs(v.n)
    /\ Abs(v.n) < (Abs(k) + 1) * v.d
    /\ k * v.n >= 0

\* a value int() reads, and the integer it reads
Integral(v) == v.t = "num" \/ (v.t = "str" /\ v.s = "2")
YearsOf(v) == IF v.t = "num" THEN WholeYears(v) ELSE 2

\* every required field but maturityYears is present and well typed
OthersValid(b) ==
  /\ {"faceValue", "couponRate", "yieldToMaturity", "type", "rating",
      "sector"} \subseteq DOMAIN b
  /\ Numeric(b.faceValue)
  /\ Numeric(b.couponRate)
  /\ Numeric(b.yieldToMaturity)

WellFormed(b) ==
  OthersValid(b) /\ "maturityYears" \in DOMAIN b /\ Integral(b.maturityYears)

\* a yield of -100% with at least one year: the discount factor is 0
DividesByZero(b) ==
  YearsOf(b.maturityYears) >= 1 /\ ValueOf(b.yieldToMaturity) = [n |-> -100, d |-> 1]

RECURSIVE Total(_)
Total(q) == IF Len(q) = 0 THEN FZero ELSE FAdd(Head(q), Total(Tail(q)))

Max0(k) == IF k > 0 THEN k ELSE 0
HasReturned == cpc = "returned"
Cashflows == ret.out.cashflows.l
Price == FOf(ret.out.marketPrice)
Discounted == [i \in 1..Len(Cashflows) |-> FOf(Cashflows[i].discounted)]
YieldFraction == FDiv(ValueOf(bond.yieldToMaturity), FInt(100))

\* C1 as stated in the specification: a numeric maturityYears that is not a
\* positive integer (0, negative, or non-integral such as 2.7) makes
\* calculate_metrics raise, so that no result is produced
C1_FailsUnlessPositiveInteger ==
  (/\ cpc # "call"
   /\ "maturityYears" \in DOMAIN bond
   /\ bond.maturityYears.t = "num"
   /\ ~(bond.maturityYears.d = 1 /\ bond.maturityYears.n >= 1))
    => cpc = "raised"

\* C1 amended: a numeric maturityYears never makes calculate_metrics fail,
\* it is truncated toward zero.  With the other fields valid, a maturity
\* whose integral part is 0 or negative returns a result with no cashflow
\* and price 0, and any other numeric maturity gives what its integral part
\* gives (2.7 years: the outcome and the computed fields of 2 years, with 2
\* cashflows).  The call fails on maturityYears only when it is missing,
\* null or a string that is not an integer literal.
WithWholeYears(b) ==
  [b EXCEPT !.maturityYears = NumI(YearsOf(b.maturityYears))]

C1_MaturityCoerced ==
  (cpc # "call" /\ OthersValid(bond)) =>
    IF "maturityYears" \notin DOMAIN bond THEN cpc = "raised"
    ELSE LET m == bond.maturityYears
         IN  /\ ~Integral(m) => cpc = "raised"
             /\ Integral(m) /\ YearsOf(m) <= 0 =>
                  /\ cpc = "returned"
                  /\ Cashflows = <<>>
                  /\ Price = FZero
             /\ Integral(m) /\ YearsOf(m) >= 1 =>
                  LET whole == calculate_metrics(WithWholeYears(bond))
                  IN  /\ ret.ok = whole.ok
                      /\ ret.ok =>
                           /\ Len(Cashflows) = YearsOf(m)
                           /\ \A k \in ComputedKeys :
                                ret.out[k] = whole.out[k]

C1_Witness ==
  /\ HasReturned
  /\ bond.maturityYears = Num(Rat(27, 10))
  /\ Len(Cashflows) = 2

\* C2: when main completes, the written bonds list is as long as the input
\* list and its i-th element is calculate_metrics of the i-th input alone
InputBonds ==
  IF stdin.kind = "object" /\ stdin.hasBonds THEN stdin.bonds ELSE <<>>

C2_OutputFollowsInput ==
  pc = "done" =>
    /\ Len(stdout) = 1
    /\ Len(stdout[1].bonds) = Len(InputBonds)
    /\ \A i \in 1..Len(InputBonds) :
         /\ calculate_metrics(InputBonds[i]).ok
         /\ stdout[1].bonds[i] = calculate_metrics(InputBonds[i]).out

C2_Witness ==
  /\ pc = "done"
  /\ Len(stdout) = 1
  /\ Len(stdout[1].bonds) >= 2
  /\ stdout[1].bonds[1] # stdout[1].bonds[2]

\* C3: if the computation of any bond of the batch fails, nothing is ever
\* written to standard output, whatever was computed before the failure
C3_NoOutputOnFailure ==
  (\E i \in 1..Len(InputBonds) : ~calculate_metrics(InputBonds[i]).ok)
    => stdout = <<>> /\ pc # "done"

C3_Witness ==
  /\ pc = "failed"
  /\ Len(result) >= 1
  /\ stdout = <<>>

\* C4: on an empty standard input or the payload {} main does not fail, can
\* always go on until it is done, and writes exactly {"bonds": []}
C4_EmptyInput ==
  (stdin.kind = "empty" \/ (stdin.kind = "object" /\ ~stdin.hasBonds)) =>
    /\ pc \in {"start", "comprehension", "done"}
    /\ pc # "done" => stdout = <<>> /\ ENABLED Next
    /\ pc = "done" => stdout = <<[bonds |-> <<>>]>>

C4_Witness ==
  /\ stdin.kind = "empty"
  /\ pc = "done"
  /\ stdout = <<[bonds |-> <<>>]>>

\* C5: cr01 is 0 for every type other than exactly "Corporate", and equals
\* pv01 for "Corporate"; pv01 always equals dv01
C5_Cr01ByType ==
  HasReturned =>
    /\ ret.out.pv01 = ret.out.dv01
    /\ bond.type = Str("Corporate") => ret.out.cr01 = ret.out.pv01
    /\ bond.type # Str("Corporate") => ret.out.cr01 = NumI(0)

C5_Witness ==
  /\ HasReturned
  /\ bond.type = Str("corporate")
  /\ ret.out.pv01 # NumI(0)
  /\ ret.out.cr01 = NumI(0)

\* C6: a rating outside the PD table gives pd = 0.1 and a sector outside the
\* LGD table gives lgd = 40, a known key gives 100 times its table value,
\* and the call completes whatever the rating and the sector are
C6_Fallbacks ==
  /\ HasReturned =>
       /\ ret.out.pd =
            IF bond.rating.s \in DOMAIN RATING_PD
            THEN Num(Rat(100 * RATING_PD[bond.rating.s].n,
                         RATING_PD[bond.rating.s].d))
            ELSE Num(Rat(1, 10))
       /\ ret.out.lgd =
            IF bond.sector.s \in DOMAIN SECTOR_LGD
            THEN Num(Rat(100 * SECTOR_LGD[bond.sector.s].n,
                         SECTOR_LGD[bond.sector.s].d))
            ELSE NumI(40)
  /\ (cpc # "call" /\ WellFormed(bond) /\ ~DividesByZero(bond)) => HasReturned

C6_Witness ==
  /\ HasReturned
  /\ bond.rating = Str("ZZZ")
  /\ bond.sector = Str("Mars")
  /\ ret.out.pd = Num(Rat(1, 10))
  /\ ret.out.lgd = NumI(40)

\* C7: the result has every key of the descriptor; a key that is not a
\* computed key keeps its input value, a computed key holds the computed
\* value, and the descriptor itself is unchanged by the call
WithoutComputed(b) == [k \in DOMAIN b \ ComputedKeys |-> b[k]]

C7_PassThrough ==
  HasReturned =>
    /\ DOMAIN ret.out = DOMAIN bond \cup ComputedKeys
    /\ \A k \in DOMAIN bond \ ComputedKeys : ret.out[k] = bond[k]
    /\ \A k \in ComputedKeys :
         ret.out[k] = calculate_metrics(WithoutComputed(bond)).out[k]
    /\ ret.bond = bond

C7_Witness ==
  /\ HasReturned
  /\ "isin" \in DOMAIN bond
  /\ ret.out.isin = bond.isin
  /\ "pd" \in DOMAIN bond
  /\ ret.out.pd # bond.pd

\* C8: the discounted values of the cashflows add up to marketPrice; the
\* price is 0 exactly when there is no cashflow or the values cancel
C8_PriceIsSumOfDiscounted ==
  HasReturned => Total(Discounted) = Price

C8_Witness ==
  /\ HasReturned
  /\ Len(Cashflows) >= 2
  /\ Price # FZero
  /\ \E i \in 1..Len(Cashflows) : Cashflows[i].discounted # Cashflows[i].total

\* C9: a maturity of N >= 1 years gives N cashflows with years 1..N in
\* order, each with coupon = faceValue * couponRate / 100 and
\* total = coupon + principal, the principal being faceValue in year N and
\* 0 in every other year
C9_BulletSchedule ==
  (HasReturned /\ YearsOf(bond.maturityYears) >= 1) =>
    LET N == YearsOf(bond.maturityYears)
        face == ValueOf(bond.faceValue)
        rate == ValueOf(bond.couponRate)
    IN  /\ Len(Cashflows) = N
        /\ \A i \in 1..Len(Cashflows) :
             /\ Cashflows[i].year = NumI(i)
             /\ Cashflows[i].coupon = Num(Rat(face.n * rate.n,
                                              face.d * rate.d * 100))
             /\ FOf(Cashflows[i].total) =
                  FAdd(FOf(Cashflows[i].coupon), FOf(Cashflows[i].principal))
             /\ Cashflows[i].principal =
                  IF i = N THEN Num(face) ELSE NumI(0)

C9_Witness ==
  /\ HasReturned
  /\ Len(Cashflows) >= 3
  /\ Cashflows[Len(Cashflows)].principal = NumI(100)
  /\ Cashflows[1].principal = NumI(0)
  /\ Cashflows[1].coupon = NumI(50)

\* C10: with a market price <= 0 the call returns a result whose
\* macaulayDuration, duration and convexity are 0, and so are pv01, dv01 and
\* cr01; with a market price > 0 the three are the weighted sums
C10_DegenerateBranch ==
  /\ (cpc # "call" /\ WellFormed(bond) /\ ~DividesByZero(bond)) => HasReturned
  /\ (HasReturned /\ Price.n <= 0) =>
       \A k \in {"macaulayDuration", "duration", "convexity", "pv01", "dv01",
                 "cr01"} : ret.out[k] = NumI(0)
  /\ (HasReturned /\ Price.n > 0) =>
       LET onePlus == FAdd(FInt(1), YieldFraction)
           mac == FDiv(Total([i \in 1..Len(Cashflows) |->
                                FMul(FInt(i), Discounted[i])]), Price)
       IN  /\ ret.out.macaulayDuration = Num(mac)
           /\ ret.out.duration = Num(FDiv(mac, onePlus))
           /\ ret.out.convexity =
                Num(FDiv(Total([i \in 1..Len(Cashflows) |->
                                  FMul(FInt(i * (i + 1)), Discounted[i])]),
                         FMul(Price, FMul(onePlus, onePlus))))

C10_Witness ==
  /\ HasReturned
  /\ Price.n < 0
  /\ Len(Cashflows) >= 1
  /\ ret.out.duration = NumI(0)

====
